---- MODULE Spec2Model ----
(***************************************************************************)
(* Model of webrepl.py: the handshake that start_webrepl_with_selenium     *)
(* drives against the browser's terminal element ("term").                 *)
(*                                                                         *)
(* The program is sequential.  Every evaluation of element.text is a live  *)
(* read of the page, so the model takes one step per read or sleep and     *)
(* lets the page (TerminalChange) change the text between any two steps.   *)
(* The text is abstracted to the set of markers it contains, which is all  *)
(* the code ever asks of it ("X" in element.text).                         *)
(***************************************************************************)
EXTENDS Naturals, Sequences, FiniteSets

\* default of the max_retries parameter of the three stage functions; the
\* launcher calls all three with the default
max_retries == 10

\* the history counters checks and sleeps stop counting here; the program
\* itself never gets that far
MaxCount == 13

Count(n) == IF n < MaxCount THEN n + 1 ELSE n

Markers == {"Welcome", "Disconnected", "Password", "Access denied", ">>>"}

Stages == <<"welcome", "password", "prompt">>

TimedOut ==
  {"TimedOutWelcome", "TimedOutPassword", "TimedOutPrompt"}

VARIABLES
  pc,          \* position of the program
  term,        \* markers contained in browser.find_element_by_id("term").text
  tries,       \* local variable tries of the running stage function
  success,     \* value returned by the last stage function
  ret,         \* value returned by start_webrepl_with_selenium
  outcome,     \* which return path the handshake took (the message printed)
  browser,     \* "none", "open" or "closed"
  closes,      \* number of browser.close() calls
  keys,        \* keystrokes sent through the keyboard module, in order
  stagesRun,   \* history: stage functions called so far, in order
  checks,      \* history: evaluations of the running stage's loop condition
  sleeps,      \* history: time.sleep calls of the running stage's loop
  prevSleeps,  \* history: loop sleeps of the stages that ran before
  settles,     \* history: settle pauses (time.sleep(0.5) after the password)
  snapsClean,  \* history: no read so far saw "Welcome" or "Disconnected"
  discHeld,    \* history: "Disconnected" in the text ever since a loop sleep of the running stage began
  discWhole,   \* history: the text held "Disconnected", and neither the stage's marker nor "Access denied", all through the running stage
  pwDenied,    \* history: result of the read after the settle pause
  found,       \* history: markers the loop conditions found, in order
  ip,          \* argument ip of ip_to_url and of start_webrepl_html
  port,        \* argument port of ip_to_url; <<>> is the default ""
  url,         \* what ip_to_url returned or raised
  html_found,  \* whether find_webrepl_html_file finds webrepl.html
  page,        \* lines of webrepl.html
  pageOnce,    \* history: lines of webrepl.html after the first start_webrepl_html
  runs         \* history: calls of start_webrepl_html so far

vars ==
  <<pc, term, tries, success, ret, outcome, browser, closes, keys, stagesRun,
    checks, sleeps, prevSleeps, settles, snapsClean, discHeld, discWhole,
    pwDenied, found, ip, port, url, html_found, page, pageOnce, runs>>

\* state of ip_to_url and start_webrepl_html
tool == <<ip, port, url, html_found, page, pageOnce, runs>>

hist == <<checks, sleeps, prevSleeps, settles, snapsClean, discHeld, discWhole, pwDenied>>

Stage ==
  IF stagesRun = <<>> THEN "none" ELSE stagesRun[Len(stagesRun)]

Target(s) ==
  CASE s = "welcome" -> "Welcome"
    [] s = "password" -> "Password"
    [] s = "prompt" -> ">>>"
    [] OTHER -> "Welcome"

\* the text shows the connection as lost and nothing that ends stage s otherwise
DiscOnly(s, text) ==
  /\ "Disconnected" \in text
  /\ Target(s) \notin text
  /\ "Access denied" \notin text

\* variant: one counter shared by the stages, never set back
tries_kept(old) == old

\* tries = 0 at the head of a stage function
tries_init(old) == 0

\* variant: the increment is missing from the loop
tries_stuck(t) == t

\* tries += 1
tries_next(t) == t + 1

\* if tries > max_retries
Exceeded(t) == t > max_retries

\* nothing returned or raised yet
NoResult == [raised |-> FALSE, value |-> <<>>]

\* ip_to_url and start_webrepl_html have not been called
ToolIdle ==
  /\ ip = <<>>
  /\ port = <<>>
  /\ url = NoResult
  /\ html_found = FALSE
  /\ page = <<>>
  /\ pageOnce = <<>>
  /\ runs = 0

\* the handshake before its first step, the program at position at
HandshakeAt(at) ==
  /\ pc = at
  /\ tries = 0
  /\ success = FALSE
  /\ ret = "unset"
  /\ outcome = "none"
  /\ browser = "none"
  /\ closes = 0
  /\ keys = <<>>
  /\ stagesRun = <<>>
  /\ checks = 0
  /\ sleeps = 0
  /\ prevSleeps = 0
  /\ settles = 0
  /\ snapsClean = TRUE
  /\ discHeld = FALSE
  /\ discWhole = FALSE
  /\ pwDenied = "unread"
  /\ found = <<>>

Init ==
  /\ HandshakeAt("main")
  /\ term \in SUBSET Markers
  /\ ToolIdle

\* the page rewrites the terminal text; it can do so at any moment
TerminalChange ==
  /\ pc # "done"
  /\ \E t \in SUBSET Markers :
       /\ t # term
       /\ term' = t
       /\ discHeld' = (discHeld /\ "Disconnected" \in t)
       /\ discWhole' = (discWhole /\ DiscOnly(Stage, t))
  /\ UNCHANGED <<pc, tries, success, ret, outcome, browser, closes, keys,
                 stagesRun, checks, sleeps, prevSleeps, settles, snapsClean,
                 pwDenied>>
  /\ UNCHANGED <<found, tool>>

\* a stage function is called: its history starts afresh
EnterStage(s) ==
  /\ stagesRun' = Append(stagesRun, s)
  /\ checks' = 0
  /\ sleeps' = 0
  /\ prevSleeps' = prevSleeps + sleeps
  /\ discHeld' = FALSE
  /\ discWhole' = DiscOnly(s, term)

\* a stage function returns False with the given message
StageFails(o, at) ==
  /\ outcome' = o
  /\ success' = FALSE
  /\ pc' = at

\* snapsClean after one more read of the text
CleanAfter(text) ==
  snapsClean /\ "Welcome" \notin text /\ "Disconnected" \notin text

\* main calls start_webrepl_with_selenium, which opens the browser, submits
\* the url and calls wait_for_welcome_message
StartWebrepl ==
  /\ pc = "main"
  /\ \E is_file \in BOOLEAN :
       IF is_file
       THEN /\ browser' = "open"
            /\ EnterStage("welcome")
            /\ tries' = tries_init(tries)
            /\ pc' = "w_loop"
            /\ UNCHANGED <<ret, outcome>>
       ELSE /\ ret' = "False"
            /\ outcome' = "NoPage"
            /\ pc' = "m_after"
            /\ UNCHANGED <<browser, tries, stagesRun, checks, sleeps,
                           prevSleeps, discHeld, discWhole>>
  /\ UNCHANGED <<term, success, closes, keys, settles, snapsClean, pwDenied>>
  /\ UNCHANGED <<found, tool>>

(***************************************************************************)
(* wait_for_welcome_message                                                *)
(***************************************************************************)

\* variant: the loop looks for "Disconnected" before it looks for "Welcome"
WelcomeLoopDisconnectedFirst ==
  /\ pc = "w_loop"
  /\ checks' = Count(checks)
  /\ snapsClean' = CleanAfter(term)
  /\ IF "Disconnected" \in term
     THEN StageFails("Disconnected", "l_w")
     ELSE IF "Welcome" \in term
          THEN /\ success' = TRUE
               /\ pc' = "l_w"
               /\ UNCHANGED outcome
          ELSE IF Exceeded(tries)
               THEN StageFails("TimedOutWelcome", "l_w")
               ELSE /\ pc' = "w_sleep"
                    /\ UNCHANGED <<success, outcome>>
  /\ UNCHANGED <<term, tries, ret, browser, closes, keys, stagesRun, sleeps,
                 prevSleeps, settles, discHeld, discWhole, pwDenied>>
  /\ found' = IF "Welcome" \in term /\ "Disconnected" \notin term
              THEN Append(found, "Welcome") ELSE found
  /\ UNCHANGED tool

\* while "Welcome" not in element.text: / if tries > max_retries: return False
WelcomeLoop ==
  /\ pc = "w_loop"
  /\ checks' = Count(checks)
  /\ snapsClean' = CleanAfter(term)
  /\ IF "Welcome" \in term
     THEN /\ success' = TRUE
          /\ pc' = "l_w"
          /\ UNCHANGED outcome
     ELSE IF Exceeded(tries)
          THEN StageFails("TimedOutWelcome", "l_w")
          ELSE /\ pc' = "w_sleep"
               /\ UNCHANGED <<success, outcome>>
  /\ UNCHANGED <<term, tries, ret, browser, closes, keys, stagesRun, sleeps,
                 prevSleeps, settles, discHeld, discWhole, pwDenied>>
  /\ found' = IF "Welcome" \in term THEN Append(found, "Welcome") ELSE found
  /\ UNCHANGED tool

\* variant: the retry count is tested right after the increment, before the
\* text is read for "Disconnected"
WelcomeSleepThenCount ==
  /\ pc = "w_sleep"
  /\ sleeps' = Count(sleeps)
  /\ tries' = tries_next(tries)
  /\ discHeld' = ("Disconnected" \in term)
  /\ IF Exceeded(tries_next(tries))
     THEN StageFails("TimedOutWelcome", "l_w")
     ELSE /\ pc' = "w_disc"
          /\ UNCHANGED <<success, outcome>>
  /\ UNCHANGED <<term, ret, browser, closes, keys, stagesRun, checks,
                 prevSleeps, settles, snapsClean, discWhole, pwDenied>>
  /\ UNCHANGED <<found, tool>>

\* time.sleep(interval); tries += 1
WelcomeSleep ==
  /\ pc = "w_sleep"
  /\ sleeps' = Count(sleeps)
  /\ tries' = tries_next(tries)
  /\ discHeld' = ("Disconnected" \in term)
  /\ pc' = "w_disc"
  /\ UNCHANGED <<term, success, ret, outcome, browser, closes, keys,
                 stagesRun, checks, prevSleeps, settles, snapsClean,
                 discWhole, pwDenied>>
  /\ UNCHANGED <<found, tool>>

\* if "Disconnected" in element.text: return False
WelcomeDisconnected ==
  /\ pc = "w_disc"
  /\ snapsClean' = CleanAfter(term)
  /\ IF "Disconnected" \in term
     THEN StageFails("Disconnected", "l_w")
     ELSE /\ pc' = "w_loop"
          /\ UNCHANGED <<success, outcome>>
  /\ UNCHANGED <<term, tries, ret, browser, closes, keys, stagesRun, checks,
                 sleeps, prevSleeps, settles, discHeld, discWhole, pwDenied>>
  /\ UNCHANGED <<found, tool>>

(***************************************************************************)
(* start_webrepl_with_selenium, between the stages                         *)
(***************************************************************************)

\* variant: return None without browser.close()
ReturnNoneOnly ==
  /\ ret' = "None"
  /\ pc' = "m_after"
  /\ UNCHANGED <<browser, closes, tries, outcome, keys, stagesRun, hist>>

\* if not success: browser.close(); return None
CloseAndReturnNone ==
  /\ browser' = "closed"
  /\ closes' = closes + 1
  /\ ret' = "None"
  /\ pc' = "m_after"
  /\ UNCHANGED <<tries, outcome, keys, stagesRun, hist>>

\* variant: the result of wait_for_welcome_message is not looked at
AfterWelcomeUnchecked ==
  /\ pc = "l_w"
  /\ EnterStage("password")
  /\ tries' = tries_init(tries)
  /\ pc' = "p_loop"
  /\ UNCHANGED <<ret, outcome, browser, closes, keys, settles, snapsClean,
                 pwDenied>>
  /\ UNCHANGED <<term, success>>
  /\ UNCHANGED <<found, tool>>

\* success = wait_for_welcome_message(browser); on success enter_password is called
AfterWelcome ==
  /\ pc = "l_w"
  /\ IF success
     THEN /\ EnterStage("password")
          /\ tries' = tries_init(tries)
          /\ pc' = "p_loop"
          /\ UNCHANGED <<ret, outcome, browser, closes, keys, settles,
                         snapsClean, pwDenied>>
     ELSE CloseAndReturnNone
  /\ UNCHANGED <<term, success>>
  /\ UNCHANGED <<found, tool>>

(***************************************************************************)
(* enter_password                                                          *)
(***************************************************************************)

\* while "Password" not in element.text:
PasswordLoop ==
  /\ pc = "p_loop"
  /\ checks' = Count(checks)
  /\ snapsClean' = CleanAfter(term)
  /\ pc' = IF "Password" \in term THEN "p_write" ELSE "p_disc"
  /\ UNCHANGED <<term, tries, success, ret, outcome, browser, closes, keys,
                 stagesRun, sleeps, prevSleeps, settles, discHeld, discWhole,
                 pwDenied>>
  /\ found' = IF "Password" \in term THEN Append(found, "Password") ELSE found
  /\ UNCHANGED tool

\* if 'Disconnected' in element.text: return False
\* if tries > max_retries: return False
PasswordDisconnected ==
  /\ pc = "p_disc"
  /\ snapsClean' = CleanAfter(term)
  /\ IF "Disconnected" \in term
     THEN StageFails("Disconnected", "l_p")
     ELSE IF Exceeded(tries)
          THEN StageFails("TimedOutPassword", "l_p")
          ELSE /\ pc' = "p_sleep"
               /\ UNCHANGED <<success, outcome>>
  /\ UNCHANGED <<term, tries, ret, browser, closes, keys, stagesRun, checks,
                 sleeps, prevSleeps, settles, discHeld, discWhole, pwDenied>>
  /\ UNCHANGED <<found, tool>>

\* time.sleep(interval); tries += 1
PasswordSleep ==
  /\ pc = "p_sleep"
  /\ sleeps' = Count(sleeps)
  /\ tries' = tries_next(tries)
  /\ discHeld' = ("Disconnected" \in term)
  /\ pc' = "p_loop"
  /\ UNCHANGED <<term, success, ret, outcome, browser, closes, keys,
                 stagesRun, checks, prevSleeps, settles, snapsClean,
                 discWhole, pwDenied>>
  /\ UNCHANGED <<found, tool>>

\* variant: the password is written with its own newline and '\n' after it
PasswordWriteTwoNewlines ==
  /\ pc = "p_write"
  /\ keys' = keys \o <<"password", "newline", "newline">>
  /\ settles' = settles + 1
  /\ pc' = "p_denied"
  /\ UNCHANGED <<term, tries, success, ret, outcome, browser, closes,
                 stagesRun, checks, sleeps, prevSleeps, snapsClean, discHeld,
                 discWhole, pwDenied>>
  /\ UNCHANGED <<found, tool>>

\* keyboard.write(password); keyboard.write('\n'); time.sleep(0.5)
PasswordWrite ==
  /\ pc = "p_write"
  /\ keys' = keys \o <<"password", "newline">>
  /\ settles' = settles + 1
  /\ pc' = "p_denied"
  /\ UNCHANGED <<term, tries, success, ret, outcome, browser, closes,
                 stagesRun, checks, sleeps, prevSleeps, snapsClean, discHeld,
                 discWhole, pwDenied>>
  /\ UNCHANGED <<found, tool>>

\* variant: the text is searched for the spelling of the printed message
password_denied_as_printed(text) == "Access Denied" \in text

\* "Access denied" in element.text, as enter_password asks after the pause
password_denied(text) == "Access denied" \in text

\* if "Access denied" in element.text: return False / else: return True
PasswordDenied ==
  /\ pc = "p_denied"
  /\ snapsClean' = CleanAfter(term)
  /\ pwDenied' = IF "Access denied" \in term THEN "yes" ELSE "no"
  /\ IF password_denied(term)
     THEN StageFails("Denied", "l_p")
     ELSE /\ success' = TRUE
          /\ pc' = "l_p"
          /\ UNCHANGED outcome
  /\ UNCHANGED <<term, tries, ret, browser, closes, keys, stagesRun, checks,
                 sleeps, prevSleeps, settles, discHeld, discWhole>>
  /\ UNCHANGED <<found, tool>>

\* success = enter_password(browser, password); on success
\* wait_for_repl_prompt is called
AfterPassword ==
  /\ pc = "l_p"
  /\ IF success
     THEN /\ EnterStage("prompt")
          /\ pc' = "r_first"
          /\ UNCHANGED <<tries, ret, outcome, browser, closes, keys, settles,
                         snapsClean, pwDenied>>
     ELSE CloseAndReturnNone
  /\ UNCHANGED <<term, success>>
  /\ UNCHANGED <<found, tool>>

(***************************************************************************)
(* wait_for_repl_prompt                                                    *)
(***************************************************************************)

\* variant: a text with ">>>" is not looked at for "Access denied"
PromptFirstPromptWins ==
  /\ pc = "r_first"
  /\ snapsClean' = CleanAfter(term)
  /\ IF "Access denied" \in term /\ ">>>" \notin term
     THEN /\ StageFails("Denied", "l_r")
          /\ UNCHANGED tries
     ELSE /\ tries' = tries_init(tries)
          /\ pc' = "r_loop"
          /\ UNCHANGED <<success, outcome>>
  /\ UNCHANGED <<term, ret, browser, closes, keys, stagesRun, checks, sleeps,
                 prevSleeps, settles, discHeld, discWhole, pwDenied>>
  /\ UNCHANGED <<found, tool>>

\* if "Access denied" in element.text: return False / tries = 0
PromptFirst ==
  /\ pc = "r_first"
  /\ snapsClean' = CleanAfter(term)
  /\ IF "Access denied" \in term
     THEN /\ StageFails("Denied", "l_r")
          /\ UNCHANGED tries
     ELSE /\ tries' = tries_init(tries)
          /\ pc' = "r_loop"
          /\ UNCHANGED <<success, outcome>>
  /\ UNCHANGED <<term, ret, browser, closes, keys, stagesRun, checks, sleeps,
                 prevSleeps, settles, discHeld, discWhole, pwDenied>>
  /\ UNCHANGED <<found, tool>>

\* variant: the ctrl+b keystroke sits inside the loop, sent on every pass
PromptLoopKeyEveryPass ==
  /\ pc = "r_loop"
  /\ checks' = Count(checks)
  /\ snapsClean' = CleanAfter(term)
  /\ keys' = Append(keys, "ctrl+b")
  /\ IF ">>>" \in term
     THEN /\ success' = TRUE
          /\ pc' = "l_r"
     ELSE /\ pc' = "r_sleep"
          /\ UNCHANGED success
  /\ UNCHANGED <<term, tries, ret, outcome, browser, closes, stagesRun,
                 sleeps, prevSleeps, settles, discHeld, discWhole, pwDenied>>
  /\ found' = IF ">>>" \in term THEN Append(found, ">>>") ELSE found
  /\ UNCHANGED tool

\* while ">>>" not in element.text: / else: keyboard.press_and_release('ctrl+b'); return True
PromptLoop ==
  /\ pc = "r_loop"
  /\ checks' = Count(checks)
  /\ snapsClean' = CleanAfter(term)
  /\ IF ">>>" \in term
     THEN /\ keys' = Append(keys, "ctrl+b")
          /\ success' = TRUE
          /\ pc' = "l_r"
     ELSE /\ pc' = "r_sleep"
          /\ UNCHANGED <<keys, success>>
  /\ UNCHANGED <<term, tries, ret, outcome, browser, closes, stagesRun,
                 sleeps, prevSleeps, settles, discHeld, discWhole, pwDenied>>
  /\ found' = IF ">>>" \in term THEN Append(found, ">>>") ELSE found
  /\ UNCHANGED tool

\* tries += 1; time.sleep(0.5); if tries > max_retries: return False
PromptSleep ==
  /\ pc = "r_sleep"
  /\ tries' = tries_next(tries)
  /\ sleeps' = Count(sleeps)
  /\ discHeld' = ("Disconnected" \in term)
  /\ IF Exceeded(tries_next(tries))
     THEN StageFails("TimedOutPrompt", "l_r")
     ELSE /\ pc' = "r_loop"
          /\ UNCHANGED <<success, outcome>>
  /\ UNCHANGED <<term, ret, browser, closes, keys, stagesRun, checks,
                 prevSleeps, settles, snapsClean, discWhole, pwDenied>>
  /\ UNCHANGED <<found, tool>>

\* success = wait_for_repl_prompt(browser); on success: return browser
AfterPrompt ==
  /\ pc = "l_r"
  /\ IF success
     THEN /\ ret' = "browser"
          /\ outcome' = "Ready"
          /\ pc' = "m_after"
          /\ UNCHANGED <<tries, browser, closes, keys, stagesRun, hist>>
     ELSE CloseAndReturnNone
  /\ UNCHANGED <<term, success>>
  /\ UNCHANGED <<found, tool>>

(***************************************************************************)
(* main, once start_webrepl_with_selenium has returned                     *)
(***************************************************************************)

\* variant: main goes on to its check whatever was returned
MainAfterUnchecked ==
  /\ pc = "m_after"
  /\ pc' = "m_check"
  /\ UNCHANGED <<term, tries, success, ret, outcome, browser, closes, keys,
                 stagesRun, hist>>
  /\ UNCHANGED <<found, tool>>

\* if not browser: return
MainAfter ==
  /\ pc = "m_after"
  /\ pc' = IF ret = "browser" THEN "m_check" ELSE "done"
  /\ UNCHANGED <<term, tries, success, ret, outcome, browser, closes, keys,
                 stagesRun, hist>>
  /\ UNCHANGED <<found, tool>>

\* if "Disconnected" in element.text: browser.close()
MainCheck ==
  /\ pc = "m_check"
  /\ IF "Disconnected" \in term
     THEN /\ browser' = "closed"
          /\ closes' = closes + 1
     ELSE UNCHANGED <<browser, closes>>
  /\ pc' = "done"
  /\ UNCHANGED <<term, tries, success, ret, outcome, keys, stagesRun, hist>>
  /\ UNCHANGED <<found, tool>>

Driver ==
  \/ StartWebrepl
  \/ WelcomeLoop
  \/ WelcomeSleep
  \/ WelcomeDisconnected
  \/ AfterWelcome
  \/ PasswordLoop
  \/ PasswordDisconnected
  \/ PasswordSleep
  \/ PasswordWrite
  \/ PasswordDenied
  \/ AfterPassword
  \/ PromptFirst
  \/ PromptLoop
  \/ PromptSleep
  \/ AfterPrompt
  \/ MainAfter
  \/ MainCheck

Next ==
  \/ Driver
  \/ TerminalChange

Spec ==
  Init /\ [][Next]_vars

\* the program is sequential and every sleep ends: the driver keeps stepping
FairSpec ==
  Init /\ [][Next]_vars /\ WF_vars(Driver)

TypeOK ==
  /\ term \in SUBSET Markers
  /\ tries \in 0..(max_retries + 1)
  /\ browser \in {"none", "open", "closed"}
  /\ outcome \in {"none", "NoPage", "Ready", "Denied", "Disconnected"} \cup TimedOut

(***************************************************************************)
(* ip_to_url.  A string is the sequence of its characters.                 *)
(***************************************************************************)

\* longest ip argument tried
MaxIpLen == 4

\* characters of the ip arguments tried
Chars == {"1", ".", ":"}

Strings(n) ==
  UNION {[1..k -> Chars] : k \in 0..n}

\* port arguments tried: the default "" and a port number
PortArgs == {<<>>, <<"9">>}

\* c in s
Contains(s, c) ==
  \E i \in 1..Len(s) : s[i] = c

\* s.index(c)
IndexOf(s, c) ==
  CHOOSE i \in 1..Len(s) : s[i] = c /\ \A j \in 1..(i - 1) : s[j] # c

RECURSIVE split(_, _, _)
\* s.split(sep, maxsplit): the list of at most maxsplit + 1 parts
split(s, sep, maxsplit) ==
  IF maxsplit = 0 \/ ~Contains(s, sep)
  THEN <<s>>
  ELSE LET i == IndexOf(s, sep)
       IN <<SubSeq(s, 1, i - 1)>> \o split(SubSeq(s, i + 1, Len(s)), sep, maxsplit - 1)

\* the maxsplit argument of ip.split in ip_to_url
ip_maxsplit == 2

\* str(8266), as the f-string renders the default port
default_port == <<"8", "2", "6", "6">>

\* f"ws://{ip}:{port}/"
ws_url(host, p) ==
  <<"ws://">> \o host \o <<":">> \o p \o <<"/">>

Returned(v) == [raised |-> FALSE, value |-> v]

\* the unpacking 'ip, port = ...' of a list that has not two elements
ValueError == [raised |-> TRUE, value |-> <<"ValueError">>]

ip_to_url(ip_arg, port_arg) ==
  IF Contains(ip_arg, ":")
  THEN LET parts == split(ip_arg, ":", ip_maxsplit)
       IN IF Len(parts) = 2
          THEN Returned(ws_url(parts[1], parts[2]))
          ELSE ValueError
  ELSE Returned(ws_url(ip_arg, IF port_arg = <<>> THEN default_port ELSE port_arg))

\* the handshake variables other than pc stay as they are
HandshakeIdle ==
  UNCHANGED <<term, tries, success, ret, outcome, browser, closes, keys,
              stagesRun, hist, found>>

UrlInit ==
  /\ HandshakeAt("ip_to_url")
  /\ term = {}
  /\ ip \in Strings(MaxIpLen)
  /\ port \in PortArgs
  /\ url = NoResult
  /\ html_found = FALSE
  /\ page = <<>>
  /\ pageOnce = <<>>
  /\ runs = 0

\* url = ip_to_url(ip, port)
IpToUrl ==
  /\ pc = "ip_to_url"
  /\ url' = ip_to_url(ip, port)
  /\ pc' = "url_done"
  /\ HandshakeIdle
  /\ UNCHANGED <<ip, port, html_found, page, pageOnce, runs>>

UrlNext ==
  IpToUrl

UrlSpec ==
  UrlInit /\ [][UrlNext]_vars

(***************************************************************************)
(* start_webrepl_html.  The file is the sequence of its pieces of text;    *)
(* url_field is the text that line.startswith looks for, "\n" ends a line. *)
(***************************************************************************)

\* most complete lines in the pages tried
MaxLines == 2

\* calls of start_webrepl_html made in a row
MaxRuns == 2

url_field == "<input type=\"text\" name=\"webrepl_url\" id=\"url\" value="

\* complete lines of the pages tried
LineSamples ==
  { <<"x", "\n">>,
    <<url_field, "old", "\n">>,
    <<" ", url_field, "\n">>,
    <<"\n">> }

\* what may follow the last "\n" of a page
LastLineSamples ==
  { <<>>, <<"x">>, <<url_field, "old">> }

RECURSIVE concat(_)
\* the texts written one after the other
concat(texts) ==
  IF texts = <<>> THEN <<>> ELSE Head(texts) \o concat(Tail(texts))

Pages ==
  { concat(ls) \o last :
      ls \in UNION {[1..k -> LineSamples] : k \in 0..MaxLines},
      last \in LastLineSamples }

RECURSIVE readlines(_)
\* input_file.readlines(): the lines, each with its "\n"
readlines(text) ==
  IF text = <<>>
  THEN <<>>
  ELSE IF Contains(text, "\n")
       THEN LET i == IndexOf(text, "\n")
            IN <<SubSeq(text, 1, i)>> \o readlines(SubSeq(text, i + 1, Len(text)))
       ELSE <<text>>

\* line.startswith('<input type="text" name="webrepl_url" id="url" value=')
startswith_url_field(line) ==
  Len(line) >= 1 /\ line[1] = url_field

\* f'<input type="text" name="webrepl_url" id="url" value="{url}" />\n'
url_line(u) ==
  <<url_field, "\"">> \o u \o <<"\" />", "\n">>

\* variant: the else is missing, the line read is written as well
written_with_old(line, u) ==
  IF startswith_url_field(line) THEN <<url_line(u), line>> ELSE <<line>>

\* what the loop body writes for one line read
written(line, u) ==
  IF startswith_url_field(line) THEN <<url_line(u)>> ELSE <<line>>

RECURSIVE rewrite(_, _)
\* for line in lines: output_file.write(...)
rewrite(lines, u) ==
  IF lines = <<>>
  THEN <<>>
  ELSE concat(written(Head(lines), u)) \o rewrite(Tail(lines), u)

PageInit ==
  /\ HandshakeAt("start_webrepl_html")
  /\ term = {}
  /\ ip \in Strings(MaxIpLen - 1)
  /\ port = <<>>
  /\ url = NoResult
  /\ html_found \in BOOLEAN
  /\ page \in Pages
  /\ pageOnce = <<>>
  /\ runs = 0

\* start_webrepl_html(ip)
StartWebreplHtml ==
  /\ pc = "start_webrepl_html"
  /\ runs < MaxRuns
  /\ runs' = runs + 1
  /\ IF ~html_found \/ ip = <<>>
     THEN UNCHANGED <<url, page>>
     ELSE /\ url' = ip_to_url(ip, <<>>)
          /\ page' = IF url'.raised
                     THEN page
                     ELSE rewrite(readlines(page), url'.value)
  /\ pageOnce' = IF runs = 0 THEN page' ELSE pageOnce
  /\ HandshakeIdle
  /\ UNCHANGED <<pc, ip, port, html_found>>

PageNext ==
  StartWebreplHtml

PageSpec ==
  PageInit /\ [][PageNext]_vars

(***************************************************************************)
(* Properties                                                              *)
(***************************************************************************)

Failures ==
  {"Disconnected", "Denied"} \cup TimedOut

IsPrefix(a, b) ==
  /\ Len(a) <= Len(b)
  /\ \A i \in 1..Len(a) : a[i] = b[i]

CtrlB ==
  Cardinality({i \in 1..Len(keys) : keys[i] = "ctrl+b"})

\* C1: when no read of the terminal ever shows "Welcome" or "Disconnected",
\* wait_for_welcome_message has looked at the terminal for "Welcome" exactly
\* max_retries + 1 times (11 times) when it returns the welcome timeout.
C1_WelcomePolls ==
  (outcome = "TimedOutWelcome" /\ snapsClean) => checks = max_retries + 1

\* C2: in every polling stage, when "Disconnected" is in the terminal from
\* the start of one of the stage's sleeps onwards (so before the budget is
\* used up and before the stage's marker was seen), the run does not end
\* TimedOut.
C2_DisconnectedNotTimedOut ==
  outcome \in TimedOut => ~discHeld

\* C3: when the read after the settle pause shows "Access denied",
\* enter_password returns False with the Denied outcome and no later stage
\* runs, however many retries the password loop used.
C3_DenialPrecedence ==
  pwDenied = "yes" =>
    outcome = "Denied" /\ success = FALSE /\ Stage = "password"

C3_Witness ==
  pwDenied = "yes" /\ outcome = "Denied" /\ sleeps > 0 /\ pc = "done"

\* C4: ctrl+b is sent exactly once in a run that ends Ready and not at all in
\* a run that ends Disconnected, Denied or TimedOut.
C4_EscapeOnce ==
  /\ outcome = "Ready" => CtrlB = 1
  /\ outcome \in Failures => CtrlB = 0

C4_Witness ==
  outcome = "Ready" /\ pc = "done" /\ CtrlB = 1

\* C5: whatever the terminal does, start_webrepl_with_selenium eventually
\* returns.
C5_Returns ==
  <>(ret # "unset")

C5_Witness ==
  ret = "None" /\ outcome = "TimedOutWelcome" /\ snapsClean

\* C6: when start_webrepl_with_selenium returns, the browser is closed if the
\* handshake failed in any stage and open if the outcome is Ready.
C6_ClosedUnlessReady ==
  pc = "m_after" =>
    /\ outcome \in Failures => browser = "closed" /\ closes = 1
    /\ outcome = "Ready" => browser = "open" /\ closes = 0

C6_Witness ==
  pc = "m_after" /\ outcome = "Denied" /\ Stage = "prompt" /\ browser = "closed"

\* C7: every awaiting stage checks for "Disconnected" on its polls: a stage
\* during which the terminal shows "Disconnected" throughout, and neither
\* the stage's marker nor "Access denied", ends the run as Disconnected.
C7_DisconnectedExit ==
  (pc = "m_after" /\ discWhole) => outcome = "Disconnected"

\* C8: the stages run in the order welcome, password, prompt, each at most
\* once, and once the outcome is set it never changes and no stage is
\* entered, no poll made and no key sent any more.
C8_StageOrder ==
  [][/\ IsPrefix(stagesRun', Stages)
     /\ outcome # "none" =>
          /\ outcome' = outcome
          /\ stagesRun' = stagesRun
          /\ keys' = keys
          /\ checks' = checks
          /\ sleeps' = sleeps]_vars

C8_Witness ==
  /\ pc = "done"
  /\ outcome = "TimedOutPassword"
  /\ stagesRun = <<"welcome", "password">>

\* C9: every stage starts with tries = 0, and the number of sleeps after
\* which the password stage and the prompt stage time out is the same
\* whatever the earlier stages used.
C9_PerStageBudget ==
  /\ (pc \in {"w_loop", "p_loop", "r_loop"} /\ checks = 0) => tries = 0
  /\ outcome = "TimedOutPassword" => sleeps = max_retries + 1
  /\ outcome = "TimedOutPrompt" => sleeps = max_retries + 1

C9_Witness ==
  outcome = "TimedOutPrompt" /\ prevSleeps > max_retries + 1

\* C10: in each stage the driver sleeps at most max_retries times.
C10_SleepBound ==
  sleeps <= max_retries


\* the text of ip before its first ':'
BeforeFirst(s, c) == SubSeq(s, 1, IndexOf(s, c) - 1)

\* the text of ip after its first ':'
AfterFirst(s, c) == SubSeq(s, IndexOf(s, c) + 1, Len(s))

\* C11: ip_to_url returns exactly "ws://<host>:<port>/"; with a ':' in the
\* input the host is the text before the first ':' and the port all the text
\* after it, whatever the explicit port; without one the host is the input
\* and the port the explicit port if given, else 8266.
C11_UrlOfFirstSplit ==
  pc = "url_done" =>
    url = Returned(IF Contains(ip, ":")
                   THEN ws_url(BeforeFirst(ip, ":"), AfterFirst(ip, ":"))
                   ELSE ws_url(ip, IF port = <<>> THEN default_port ELSE port))


\* C12: after start_webrepl_html has run twice with the same ip, the file is
\* the same as it was after the first run.
C12_ProvisionIdempotent ==
  runs >= 2 => page = pageOnce

C12_Witness ==
  /\ runs = 2
  /\ page = pageOnce
  /\ Contains(page, "ws://")
  /\ Contains(page, "x")


\* C13: in the password stage a loop pass whose text holds "Disconnected"
\* does not go on to write the password, also when the text holds
\* "Password": the pass ends Disconnected.
C13_DisconnectedBeforePassword ==
  [][(pc = "p_loop" /\ "Disconnected" \in term /\ pc' # pc) =>
       (pc' # "p_write" /\ keys' = keys)]_vars

C15_WelcomeNeverDisconnected ==
  [][(pc \in {"w_loop", "w_disc"} /\ "Welcome" \in term /\ pc' # pc) =>
       outcome' # "Disconnected"]_vars

\* C15 amended: the welcome stage succeeds whenever a read of its loop
\* condition holds "Welcome", also when that text holds "Disconnected"; the
\* Disconnected failure is returned only by the read that follows a sleep,
\* which looks for "Disconnected" alone.
C15_WelcomeAtLoopHead ==
  [][/\ (pc = "w_loop" /\ "Welcome" \in term /\ pc' # pc) =>
          (success' = TRUE /\ outcome' = "none" /\ pc' = "l_w")
     /\ (Stage = "welcome" /\ outcome = "none" /\ outcome' = "Disconnected") =>
          pc = "w_disc"]_vars

C15_Witness ==
  /\ pc = "l_w"
  /\ success = TRUE
  /\ checks = 1
  /\ found = <<"Welcome">>
  /\ "Disconnected" \in term

\* C16: when the password stage or the prompt stage times out it has looked
\* at the terminal for its marker exactly max_retries + 1 times.
C16_SameBoundary ==
  /\ outcome = "TimedOutPassword" => checks = max_retries + 1
  /\ outcome = "TimedOutPrompt" => checks = max_retries + 1

\* C17: when the first read of the prompt stage shows "Access denied", with
\* or without ">>>", the stage returns Denied at once: no sleep, no retry,
\* no look for ">>>" and no key sent.
C17_DeniedAtOnce ==
  [][(pc = "r_first" /\ "Access denied" \in term /\ pc' # pc) =>
       /\ outcome' = "Denied"
       /\ success' = FALSE
       /\ pc' = "l_r"
       /\ sleeps' = 0
       /\ checks' = 0
       /\ tries' = tries
       /\ keys' = keys]_vars

C17_Witness ==
  /\ pc = "l_r"
  /\ outcome = "Denied"
  /\ sleeps = 0
  /\ {"Access denied", ">>>"} \subseteq term

\* C18: the password is written at most once, as the password and one
\* newline, only after a read found "Welcome" and a later one "Password";
\* a run that ends Disconnected or with the welcome or password timeout has
\* written nothing.
C18_CredentialsOnce ==
  /\ keys \in { <<>>, <<"password", "newline">>,
                 <<"password", "newline", "ctrl+b">> }
  /\ keys # <<>> => IsPrefix(<<"Welcome", "Password">>, found)
  /\ outcome \in {"Disconnected", "TimedOutWelcome", "TimedOutPassword"} =>
       keys = <<>>

C18_Witness ==
  /\ pc = "done"
  /\ outcome = "TimedOutPrompt"
  /\ keys = <<"password", "newline">>

\* C19: no stage returns its timeout in the step of a sleep, without a
\* further look at the terminal: a marker that is in the text when the last
\* sleep ends is still found.
C19_LookAfterSleep ==
  [][(sleeps' = sleeps + 1 /\ Target(Stage) \in term) =>
       outcome' \notin TimedOut]_vars

\* C20: the browser is closed at most once and only after it was opened;
\* after a failed handshake main does not close it again, and after Ready
\* main closes it exactly when its last look at the terminal shows
\* "Disconnected".
C20_ClosedAtMostOnce ==
  /\ closes <= 1
  /\ closes = 1 <=> browser = "closed"
  /\ (pc = "done" /\ outcome \in Failures) => closes = 1
  /\ (pc = "done" /\ outcome = "Ready") =>
       (browser = "closed" <=> "Disconnected" \in term)
  /\ (pc = "done" /\ outcome = "NoPage") => browser = "none"

C20_Witness ==
  pc = "done" /\ outcome = "Ready" /\ browser = "closed" /\ closes = 1

====
